---------------------------- MODULE Spec2Model ----------------------------
(***************************************************************************)
(* A model of bin/user/cwxn.py, the weewx service CumulusWXNow that writes *)
(* each loop packet / archive record to a wxnow.txt file in Cumulus        *)
(* format.                                                                 *)
(*                                                                         *)
(* Representation.                                                         *)
(*  - Text is a sequence of one-character strings, so that lengths and     *)
(*    prefixes are those of the bytes in the file.                         *)
(*  - A packet is a function whose DOMAIN is the set of keys the dict      *)
(*    holds; the value of a key is << >> for None and <<n>> for a number.  *)
(*  - Numbers are fixed point, in thousandths of their unit (12.3 mph is   *)
(*    12300); int() is truncation toward zero of such a number.            *)
(*  - Local time is UTC.                                                   *)
(***************************************************************************)
EXTENDS Integers, Sequences, FiniteSets, TLC

VARIABLES
    binding,     \* the event handle_data is bound to ('loop' or not)
    file,        \* content of self.filename
    packet,      \* the event's packet (event.packet / event.record)
    db,          \* the archive the event's db manager reads
    io,          \* how the file system answers this event's open/write
    result,      \* outcome of the last handle_data call
    data,        \* what calculate returned in the last call
    queries,     \* the rain windows calculate queried in the last call
    failures,    \* number of events whose handling failed so far
    propagated,  \* an exception left handle_data
    pc,          \* per invocation: position in handle_data / write_data
    line,        \* per invocation: the status line it writes
    buf,         \* per invocation: the stream's buffer
    prev,        \* content of the file when the current write_data began
    finished     \* invocations in the order their write completed

vars == <<binding, file, packet, db, io, result, data, queries, failures, propagated,
          pc, line, buf, prev, finished>>

(***************************************************************************)
(* Bounds of the model.                                                    *)
(***************************************************************************)
MaxRows == 2
MaxFailures == 2

(***************************************************************************)
(* Text helpers.                                                           *)
(***************************************************************************)
None == << >>

DigitChar(d) == <<"0", "1", "2", "3", "4", "5", "6", "7", "8", "9">>[d + 1]

RECURSIVE Digits(_)
Digits(n) == IF n < 10 THEN <<DigitChar(n)>>
             ELSE Append(Digits(n \div 10), DigitChar(n % 10))

RECURSIVE ZeroPad(_, _)
ZeroPad(s, w) == IF Len(s) >= w THEN s ELSE ZeroPad(<<"0">> \o s, w)

\* Python's "%0<w>d" % n
FmtD(n, w) == IF n < 0 THEN <<"-">> \o ZeroPad(Digits(-n), w - 1)
              ELSE ZeroPad(Digits(n), w)

\* Python's int() of a fixed-point number: truncation toward zero
PyInt(x) == IF x >= 0 THEN x \div 1000 ELSE -((-x) \div 1000)

IsPrefix(s, t) == Len(s) <= Len(t) /\ SubSeq(t, 1, Len(s)) = s

\* the bytes of a file holding f after s is written at offset 0
Overlay(f, s) == IF Len(f) <= Len(s) THEN s
                 ELSE s \o SubSeq(f, Len(s) + 1, Len(f))

(***************************************************************************)
(* time.strftime("%b %d %Y %H:%M\n", time.localtime(ts))                   *)
(***************************************************************************)
MonthName(m) ==
    << <<"J","a","n">>, <<"F","e","b">>, <<"M","a","r">>, <<"A","p","r">>,
       <<"M","a","y">>, <<"J","u","n">>, <<"J","u","l">>, <<"A","u","g">>,
       <<"S","e","p">>, <<"O","c","t">>, <<"N","o","v">>, <<"D","e","c">> >>[m]

\* civil date of a day number counted from 1970-01-01
CivilDate(days) ==
    LET z   == days + 719468
        era == z \div 146097
        doe == z - era * 146097
        yoe == (doe - doe \div 1460 + doe \div 36524 - doe \div 146096) \div 365
        doy == doe - (365 * yoe + yoe \div 4 - yoe \div 100)
        mp  == (5 * doy + 2) \div 153
        d   == doy - (153 * mp + 2) \div 5 + 1
        m   == IF mp < 10 THEN mp + 3 ELSE mp - 9
        y   == yoe + era * 400 + (IF m <= 2 THEN 1 ELSE 0)
    IN  [year |-> y, month |-> m, day |-> d]

Strftime(ts) ==
    LET c  == CivilDate(ts \div 86400)
        hh == (ts % 86400) \div 3600
        mm == (ts % 3600) \div 60
    IN  MonthName(c.month) \o <<" ">> \o FmtD(c.day, 2) \o <<" ">>
        \o FmtD(c.year, 4) \o <<" ">> \o FmtD(hh, 2) \o <<":">> \o FmtD(mm, 2)
        \o <<"\n">>

\* weeutil.weeutil.startOfDay(ts): the local midnight that starts ts's day
startOfDay(ts) == ts - (ts % 86400)

(***************************************************************************)
(* convert(v, metric, group, from_unit_system, to_units) of cwxn.py, over  *)
(* weewx.units: the unit system decides the unit v is in (US = 1: mph,     *)
(* degree_F, inHg, inch; METRIC = 16: km/h, degree_C, mbar, cm), and the   *)
(* value is re-expressed in the target unit.  An unknown unit system makes *)
(* getStandardUnitType raise.                                              *)
(***************************************************************************)
ValidUnitSystem(pu) == pu \in {<<1>>, <<16>>}

\* x * num / den, truncated toward zero at the thousandth
Scaled(x, num, den) == IF x >= 0 THEN (x * num) \div den
                       ELSE -(((-x) * num) \div den)

convert(v, group, pu, to_units) ==
    IF pu = <<1>> THEN
        CASE group = "group_speed"       -> v
          [] group = "group_temperature" -> v
          [] group = "group_pressure"    -> Scaled(v, 3386, 100)
          [] group = "group_rain"        -> v
    ELSE
        CASE group = "group_speed"       -> Scaled(v, 621, 1000)
          [] group = "group_temperature" -> Scaled(v, 9, 5) + 32000
          [] group = "group_pressure"    -> v
          [] group = "group_rain"        -> Scaled(v, 3937, 10000)

nullproof(key, d) == IF key \in DOMAIN d /\ d[key] # None THEN d[key][1] ELSE 0

(***************************************************************************)
(* The archive: a set of rows [dateTime, rain]; getSql of                  *)
(* SELECT SUM(rain) ... WHERE dateTime>? AND dateTime<=?                   *)
(* gives None for an empty window and the sum otherwise.                   *)
(***************************************************************************)
RECURSIVE SumRain(_)
SumRain(S) == IF S = {} THEN 0
              ELSE LET r == CHOOSE x \in S : TRUE
                   IN  r.rain + SumRain(S \ {r})

getSql(rows, sts, ts) ==
    LET w == {r \in rows : r.dateTime > sts /\ r.dateTime <= ts}
    IN  IF w = {} THEN None ELSE <<SumRain(w)>>

calcRainHour(dbm, ts) == getSql(dbm.rows, ts - 3600, ts)

calcRain24(dbm, ts) == getSql(dbm.rows, ts - 86400, ts)

calcDayRain(dbm, ts) == getSql(dbm.rows, startOfDay(ts), ts)

Has(p, key) == key \in DOMAIN p /\ p[key] # None


(***************************************************************************)
(* CumulusWXNow.calculate(packet, archive).  The result is                 *)
(* [exc, data, queries]: the exception that left the call ("" for a normal *)
(* return), the dict it returned, and the rain windows it queried.         *)
(***************************************************************************)
Blank(n) == [i \in 1..n |-> " "]

NoData == [dateTime |-> None, windDir |-> << >>, windSpeed |-> << >>,
           windGust |-> << >>, outTemp |-> << >>, outHumidity |-> << >>,
           barometer |-> << >>, hourRain |-> 0, rain24 |-> 0, dayRain |-> 0]

Raised(e, q) == [exc |-> e, data |-> NoData, queries |-> q]

\* the exception of  int(convert(packet[key], ...))  ("" when there is none)
ConvertExc(p, key, pu) ==
    IF key \notin DOMAIN p THEN "KeyError"
    ELSE IF ~ValidUnitSystem(pu) THEN "ConversionError"
    ELSE IF p[key] = None THEN "TypeError"
    ELSE ""

\* the value of  int(convert(packet[key], ...) * mult)
ConvertInt(p, key, group, pu, to_units, mult) ==
    PyInt(convert(p[key][1], group, pu, to_units) * mult)

\* the key calculate reads the wind speed from once 'windSpeed' is present
WindSpeedKey == "windspeed"

WindGustKey == "windgust"

FirstExc(s) == IF \E i \in 1..Len(s) : s[i] # ""
               THEN s[CHOOSE i \in 1..Len(s) :
                          s[i] # "" /\ \A j \in 1..(i - 1) : s[j] = ""]
               ELSE ""

calculate(p, dbm) ==
    LET pu == IF "usUnits" \in DOMAIN p THEN p["usUnits"] ELSE None
        fieldExc == FirstExc(<<
            IF Has(p, "windSpeed") THEN ConvertExc(p, WindSpeedKey, pu) ELSE "",
            IF Has(p, "windGust") THEN ConvertExc(p, WindGustKey, pu) ELSE "",
            IF Has(p, "outTemp") THEN ConvertExc(p, "outTemp", pu) ELSE "",
            IF Has(p, "barometer") THEN ConvertExc(p, "barometer", pu) ELSE "" >>)
    IN
    IF "dateTime" \notin DOMAIN p THEN Raised("KeyError", {})
    ELSE IF fieldExc # "" THEN Raised(fieldExc, {})
    ELSE IF p["dateTime"] = None THEN Raised("TypeError", {})
    ELSE IF dbm.status = "sqlerror" THEN Raised("DatabaseError", {"hour"})
    ELSE IF ~ValidUnitSystem(pu) THEN Raised("ConversionError", {"hour"})
    ELSE
    LET ts == p["dateTime"][1]
        vh == calcRainHour(dbm, ts)
        v24 == IF "rain24" \in DOMAIN p THEN nullproof("rain24", p)
               ELSE LET v == calcRain24(dbm, ts)
                    IN  IF v = None THEN 0 ELSE v[1]
        vd == IF "dayRain" \in DOMAIN p THEN nullproof("dayRain", p)
              ELSE LET v == calcDayRain(dbm, ts)
                   IN  IF v = None THEN 0 ELSE v[1]
    IN  [exc |-> "",
         data |-> [
            dateTime |-> p["dateTime"],
            windDir |-> IF Has(p, "windDir")
                        THEN FmtD(PyInt(p["windDir"][1]), 3) ELSE Blank(3),
            windSpeed |-> IF Has(p, "windSpeed")
                          THEN <<"/">> \o FmtD(ConvertInt(p, WindSpeedKey,
                                   "group_speed", pu, "mile_per_hour", 1), 3)
                          ELSE <<"/">> \o Blank(3),
            windGust |-> IF Has(p, "windGust")
                         THEN <<"g">> \o FmtD(ConvertInt(p, WindGustKey,
                                  "group_speed", pu, "mile_per_hour", 1), 3)
                         ELSE <<"g">> \o Blank(3),
            outTemp |-> IF Has(p, "outTemp")
                        THEN <<"t">> \o FmtD(ConvertInt(p, "outTemp",
                                 "group_temperature", pu, "degree_F", 1), 3)
                        ELSE <<"t">> \o Blank(3),
            outHumidity |-> IF Has(p, "outHumidity")
                            THEN <<"h">> \o FmtD(PyInt(p["outHumidity"][1]), 2)
                            ELSE <<"h">> \o Blank(3),
            barometer |-> IF Has(p, "barometer")
                          THEN <<"b">> \o FmtD(ConvertInt(p, "barometer",
                                   "group_pressure", pu, "mbar", 10), 5)
                          ELSE <<"b">> \o Blank(5),
            hourRain |-> convert(IF vh = None THEN 0 ELSE vh[1],
                                 "group_rain", pu, "inch"),
            rain24 |-> convert(v24, "group_rain", pu, "inch"),
            dayRain |-> convert(vd, "group_rain", pu, "inch") ],
         queries |-> {"hour"}
                     \cup (IF "rain24" \in DOMAIN p THEN {} ELSE {"day24"})
                     \cup (IF "dayRain" \in DOMAIN p THEN {} ELSE {"today"}) ]

(***************************************************************************)
(* CumulusWXNow.write_data(data): the fields, and the text the three       *)
(* f.write calls put into the stream.                                      *)
(***************************************************************************)
DataLine(d) ==
    d.windDir \o d.windSpeed \o d.windGust \o d.outTemp
    \o <<"r", " ", " ", " ">>
    \o <<"p", " ", " ", " ">>
    \o <<"P", " ", " ", " ">>
    \o d.outHumidity \o d.barometer

Writes(d) == << Strftime(d.dateTime[1]), DataLine(d), <<"\n">> >>

StatusLine(d) == Writes(d)[1] \o Writes(d)[2] \o Writes(d)[3]

(***************************************************************************)
(* open(self.filename, 'w') truncates the file; the with block's stream is *)
(* buffered, so the three writes reach the file when it is closed, at      *)
(* offset 0 of the truncated file.  A failing flush leaves a prefix of     *)
(* the text in the file.                                                   *)
(***************************************************************************)
OpenNoTruncate(f) == f

OpenW(f) == << >>

\* closing the stream writes its buffer at the stream's position, offset 0
FlushAppend(f, b) == f \o b

Flush(f, b) == Overlay(f, b)

\* the text a flush that fails at cut point c has put into the file
Partial(text, c) ==
    CASE c = 0 -> << >>
      [] c = 1 -> text[1]
      [] c = 2 -> text[1] \o text[2]

write_data(f, d, fs) ==
    IF fs.kind = "openfail" THEN [exc |-> "IOError", file |-> f]
    ELSE IF fs.kind = "flushfail"
         THEN [exc |-> "IOError",
               file |-> Flush(OpenW(f), Partial(Writes(d), fs.cut))]
    ELSE [exc |-> "", file |-> Flush(OpenW(f), StatusLine(d))]

(***************************************************************************)
(* CumulusWXNow.handle_data(event_data): get_manager, calculate,           *)
(* write_data, all inside  try ... except Exception.                       *)
(***************************************************************************)
CatchesIOErrorOnly(e) == e = "IOError"

Catches(e) == TRUE

\* a handler that opens the destination before it has the data
handle_data_open_first(f, p, dbm, fs) ==
    IF dbm.status = "nomanager"
    THEN [exc |-> "UnknownBinding", file |-> OpenW(f), data |-> NoData,
          queries |-> {}]
    ELSE LET c == calculate(p, dbm)
         IN  IF c.exc # ""
             THEN [exc |-> c.exc, file |-> OpenW(f), data |-> NoData,
                   queries |-> c.queries]
             ELSE LET w == write_data(f, c.data, fs)
                  IN  [exc |-> w.exc, file |-> w.file, data |-> c.data,
                       queries |-> c.queries]

handle_data(f, p, dbm, fs) ==
    IF dbm.status = "nomanager"
    THEN [exc |-> "UnknownBinding", file |-> f, data |-> NoData, queries |-> {}]
    ELSE LET c == calculate(p, dbm)
         IN  IF c.exc # ""
             THEN [exc |-> c.exc, file |-> f, data |-> NoData,
                   queries |-> c.queries]
             ELSE LET w == write_data(f, c.data, fs)
                  IN  [exc |-> w.exc, file |-> w.file, data |-> c.data,
                       queries |-> c.queries]

(***************************************************************************)
(* The events the host delivers: packets, archives and file system         *)
(* answers.                                                                *)
(***************************************************************************)
Timestamps == {1700000000, 1700000300}

KeySeq == <<"dateTime", "usUnits", "windDir", "windSpeed", "windGust",
            "outTemp", "outHumidity", "barometer", "hourRain", "rain24",
            "dayRain">>

\* the values a key takes in the packets of the model (<< >> is None)
Values(k) ==
    CASE k = "dateTime"    -> {<<t>> : t \in Timestamps} \cup {None}
      [] k = "usUnits"     -> {<<1>>, <<16>>, <<99>>}
      [] k = "windDir"     -> {<<315400>>}
      [] k = "windSpeed"   -> {None, <<12300>>}
      [] k = "windGust"    -> {<<20900>>}
      [] k = "outTemp"     -> {<<68900>>}
      [] k = "outHumidity" -> {<<54000>>, <<100000>>}
      [] k = "barometer"   -> {<<29920>>}
      [] k = "hourRain"    -> {<<100>>}
      [] k = "rain24"      -> {None, <<250>>}
      [] k = "dayRain"     -> {<<250>>}

NoPacket == [k \in {} |-> None]

\* every dict over the first n keys
RECURSIVE PacketsOver(_)
PacketsOver(n) ==
    IF n = 0 THEN {NoPacket}
    ELSE LET rest == PacketsOver(n - 1)
         IN  rest \cup {p @@ (KeySeq[n] :> v) : p \in rest, v \in Values(KeySeq[n])}

Packets == PacketsOver(Len(KeySeq))

\* the packets of the event stream: those over these keys, without None
StreamKeys == {"dateTime", "usUnits", "windDir", "windSpeed", "outHumidity"}

StreamPackets == {p \in Packets : /\ DOMAIN p \subseteq StreamKeys
                                  /\ \A k \in DOMAIN p : p[k] # None
                                  /\ "usUnits" \in DOMAIN p => p["usUnits"] = <<1>>
                                  /\ "outHumidity" \in DOMAIN p
                                        => p["outHumidity"] = <<54000>>}

\* the packets of the step-by-step model: with and without a humidity
StepPackets == {p \in Packets : /\ DOMAIN p \subseteq {"dateTime", "usUnits", "outHumidity"}
                                /\ \A k \in DOMAIN p : p[k] # None
                                /\ "usUnits" \in DOMAIN p => p["usUnits"] = <<1>>}

\* rows the archive may hold: rain within the last hour, a dry record within
\* the last hour, and rain on the day before within the last 24 hours
Rows == { [dateTime |-> 1700000000 - 600, rain |-> 150],
          [dateTime |-> 1700000000 - 1200, rain |-> 0],
          [dateTime |-> 1700000000 - 82800, rain |-> 400] }

OkFs == [kind |-> "ok", cut |-> 0]

EmptyArchive == [status |-> "ok", rows |-> {}]

Archives == {[status |-> "ok", rows |-> R] :
                 R \in {S \in SUBSET Rows : Cardinality(S) <= MaxRows}}

FileSystems == {OkFs, [kind |-> "openfail", cut |-> 0]}
               \cup {[kind |-> "flushfail", cut |-> c] : c \in 0..2}

\* what surrounds one event: an archive that answers, or an archive manager
\* that cannot be had, or a query that fails, or a file system that fails
Environments ==
    {[dbm |-> a, fs |-> OkFs] : a \in Archives}
    \cup {[dbm |-> [status |-> "nomanager", rows |-> {}], fs |-> OkFs],
          [dbm |-> [status |-> "sqlerror", rows |-> {}], fs |-> OkFs]}
    \cup {[dbm |-> EmptyArchive, fs |-> f] : f \in FileSystems}

StreamEnvironments == {e \in Environments : e.dbm.rows = {} /\ e.fs.cut <= 1}

\* the calls of handle_data that may be in flight at once
Invocations == {"a", "b"}

(***************************************************************************)
(* handle_data as one step: what a call does to the file and what it       *)
(* leaves behind.                                                          *)
(***************************************************************************)
HandleEvent(p, dbm, fs) ==
    \E r \in {handle_data(file, p, dbm, fs)} :    \* r: the call's outcome
        /\ ~propagated
        /\ failures + (IF r.exc = "" THEN 0 ELSE 1) <= MaxFailures
        /\ packet' = p
        /\ db' = dbm
        /\ io' = fs
        /\ file' = r.file
        /\ data' = r.data
        /\ queries' = r.queries
        /\ result' = IF r.exc = "" THEN "ok" ELSE r.exc
        /\ failures' = failures + (IF r.exc = "" THEN 0 ELSE 1)
        /\ propagated' = (r.exc # "" /\ ~Catches(r.exc))
        /\ prev' = file
        /\ UNCHANGED <<binding, pc, line, buf, finished>>

(***************************************************************************)
(* The event stream: the engine calls the handler __init__ bound,          *)
(* handle_new_loop (binding = loop) or handle_new_archive, for each event, *)
(* one after the other.                                                    *)
(***************************************************************************)
Init ==
    /\ binding \in {"loop", "archive"}
    /\ file = << >>
    /\ packet = NoPacket
    /\ db = EmptyArchive
    /\ io = OkFs
    /\ result = "none"
    /\ data = NoData
    /\ queries = {}
    /\ failures = 0
    /\ propagated = FALSE
    /\ pc = [i \in Invocations |-> "idle"]
    /\ line = [i \in Invocations |-> << >>]
    /\ buf = [i \in Invocations |-> << >>]
    /\ prev = << >>
    /\ finished = << >>

handle_new_loop ==
    /\ binding = "loop"
    /\ \E p \in StreamPackets, e \in StreamEnvironments :
          HandleEvent(p, e.dbm, e.fs)

handle_new_archive ==
    /\ binding # "loop"
    /\ \E p \in StreamPackets, e \in StreamEnvironments :
          HandleEvent(p, e.dbm, e.fs)

Next == handle_new_loop \/ handle_new_archive

Spec == Init /\ [][Next]_vars

(***************************************************************************)
(* One observation: calculate and write_data applied to one packet, drawn  *)
(* with its archive from all the packets and archives of the model.        *)
(***************************************************************************)
InitOne ==
    /\ binding = "loop"
    /\ file = << >>
    /\ packet \in Packets
    /\ \E e \in Environments : db = e.dbm /\ io = e.fs
    /\ result = "none"
    /\ data = NoData
    /\ queries = {}
    /\ failures = 0
    /\ propagated = FALSE
    /\ pc = [i \in Invocations |-> "idle"]
    /\ line = [i \in Invocations |-> << >>]
    /\ buf = [i \in Invocations |-> << >>]
    /\ prev = << >>
    /\ finished = << >>

handle_one == result = "none" /\ HandleEvent(packet, db, io)

SpecOne == InitOne /\ [][handle_one]_vars

(***************************************************************************)
(* handle_data step by step: get_manager and calculate, then write_data's  *)
(* open, its three writes into the stream, and the close that ends the     *)
(* with block.  The file already holds what an earlier event wrote.        *)
(***************************************************************************)
PriorContents ==
    {<< >>} \cup {StatusLine(calculate(p, EmptyArchive).data) :
                     p \in {q \in StreamPackets :
                                calculate(q, EmptyArchive).exc = ""}}

InitSteps ==
    /\ binding = "loop"
    /\ file \in PriorContents
    /\ prev = file
    /\ packet = NoPacket
    /\ db = EmptyArchive
    /\ io = OkFs
    /\ result = "none"
    /\ data = NoData
    /\ queries = {}
    /\ failures = 0
    /\ propagated = FALSE
    /\ pc = [i \in Invocations |-> "idle"]
    /\ line = [i \in Invocations |-> << >>]
    /\ buf = [i \in Invocations |-> << >>]
    /\ finished = << >>

StepFrame == UNCHANGED <<binding, packet, db, io, result, data, queries, failures,
                         propagated>>

\* lines 144-145: dbm = get_manager(...); data = self.calculate(event_data, dbm)
Calculate(i) ==
    /\ pc[i] = "idle"
    /\ \E p \in StepPackets, dbm \in {e.dbm : e \in StreamEnvironments} :
          LET c == IF dbm.status = "nomanager" THEN Raised("UnknownBinding", {})
                   ELSE calculate(p, dbm)
          IN  IF c.exc = ""
              THEN /\ pc' = [pc EXCEPT ![i] = "calculated"]
                   /\ line' = [line EXCEPT ![i] = Writes(c.data)]
              ELSE /\ pc' = [pc EXCEPT ![i] = "failed"]
                   /\ line' = line
    /\ UNCHANGED <<file, prev, buf, finished>>
    /\ StepFrame

\* line 226: open(self.filename, 'w')
Open(i) ==
    /\ pc[i] = "calculated"
    /\ file' = OpenW(file)
    /\ prev' = file
    /\ buf' = [buf EXCEPT ![i] = << >>]
    /\ pc' = [pc EXCEPT ![i] = "opened"]
    /\ UNCHANGED <<line, finished>>
    /\ StepFrame

OpenFails(i) ==
    /\ pc[i] = "calculated"
    /\ pc' = [pc EXCEPT ![i] = "failed"]
    /\ UNCHANGED <<file, prev, buf, line, finished>>
    /\ StepFrame

\* lines 227-230: f.write(...) three times
WritePos(state) == CASE state = "opened" -> 1
                     [] state = "wrote1" -> 2
                     [] state = "wrote2" -> 3

Write(i) ==
    /\ pc[i] \in {"opened", "wrote1", "wrote2"}
    /\ buf' = [buf EXCEPT ![i] = @ \o line[i][WritePos(pc[i])]]
    /\ pc' = [pc EXCEPT ![i] = <<"wrote1", "wrote2", "wrote3">>[WritePos(pc[i])]]
    /\ UNCHANGED <<file, prev, line, finished>>
    /\ StepFrame

\* the end of the with block: the stream is flushed and closed
Close(i) ==
    /\ pc[i] = "wrote3"
    /\ file' = Flush(file, buf[i])
    /\ pc' = [pc EXCEPT ![i] = "done"]
    /\ finished' = Append(finished, i)
    /\ UNCHANGED <<prev, buf, line>>
    /\ StepFrame

CloseFails(i) ==
    /\ pc[i] = "wrote3"
    /\ \E c \in 0..2 : file' = Flush(file, Partial(line[i], c))
    /\ pc' = [pc EXCEPT ![i] = "failedwrite"]
    /\ UNCHANGED <<prev, buf, line, finished>>
    /\ StepFrame

Step(i) == \/ Calculate(i)
           \/ Open(i)
           \/ OpenFails(i)
           \/ Write(i)
           \/ Close(i)
           \/ CloseFails(i)

\* one call of handle_data, as the host's sequential event stream makes it
NextWrite == Step("a")

SpecWrite == InitSteps /\ [][NextWrite]_vars

\* two calls for the same destination path, interleaved
NextConc == \E i \in Invocations : Step(i)

SpecConc == InitSteps /\ [][NextConc]_vars

(***************************************************************************)
(* Properties.                                                             *)
(***************************************************************************)
PU(p) == IF "usUnits" \in DOMAIN p THEN p["usUnits"] ELSE None

FirstNewline(f) == CHOOSE i \in 1..Len(f) :
                       f[i] = "\n" /\ \A j \in 1..(i - 1) : f[j] # "\n"

\* the second line of a text, without its newline
SecondLine(f) ==
    LET rest == SubSeq(f, FirstNewline(f) + 1, Len(f))
    IN  SubSeq(rest, 1, FirstNewline(rest) - 1)

Full(l) == l[1] \o l[2] \o l[3]

PreWriteFailures == {"UnknownBinding", "KeyError", "TypeError",
                     "ConversionError", "DatabaseError"}

\* C1: for every observation with a timestamp and a valid unit system, and
\* every combination of the nine quantities present or absent/None, the data
\* line handle_data writes is exactly 36 characters long before its newline.
C1_DataLineIs36 == result = "ok" => Len(SecondLine(file)) = 36

\* C2: when windSpeed (windGust) is present and not None, the data line's
\* wind speed (gust) field is '/' ('g') followed by the 3-digit zero-padded
\* mph value truncated toward zero, and the status line is still produced.
WindField(prefix, key) ==
    <<prefix>> \o FmtD(PyInt(convert(packet[key][1], "group_speed", PU(packet),
                                     "mile_per_hour")), 3)

C2_WindFieldsWritten ==
    ( /\ result # "none"
      /\ Has(packet, "dateTime")
      /\ ValidUnitSystem(PU(packet))
      /\ db.status = "ok"
      /\ io.kind = "ok" )
    => /\ Has(packet, "windSpeed")
            => /\ result = "ok"
               /\ SubSeq(SecondLine(file), 4, 7) = WindField("/", "windSpeed")
       /\ Has(packet, "windGust")
            => /\ result = "ok"
               /\ SubSeq(SecondLine(file), 8, 11) = WindField("g", "windGust")

\* C3: for each rain quantity the observation does not carry, when the
\* archive sum query returns a sum s (0 included) the written rain field is
\* the prefix followed by the 3-digit zero-padded truncated hundredths of an
\* inch of s; the blank sentinel appears only when the aggregate is absent.
RainField(prefix, agg) ==
    IF agg = None THEN <<prefix>> \o Blank(3)
    ELSE <<prefix>> \o FmtD(PyInt(convert(agg[1], "group_rain", PU(packet),
                                          "inch") * 100), 3)

C3_RainFromArchive ==
    result = "ok" =>
        LET ts == packet["dateTime"][1]
            dl == SecondLine(file)
        IN  /\ ~Has(packet, "hourRain")
                 => SubSeq(dl, 16, 19) = RainField("r", calcRainHour(db, ts))
            /\ ~Has(packet, "rain24")
                 => SubSeq(dl, 20, 23) = RainField("p", calcRain24(db, ts))
            /\ ~Has(packet, "dayRain")
                 => SubSeq(dl, 24, 27) = RainField("P", calcDayRain(db, ts))

\* C4: for every observation with a timestamp and a valid unit system,
\* whichever optional quantities are absent or None, calculate returns
\* normally provided the archive queries do not fail: a missing timestamp
\* and a failing archive query are its only causes of failure.
C4_CalculateReturns ==
    ( /\ result # "none"
      /\ Has(packet, "dateTime")
      /\ ValidUnitSystem(PU(packet))
      /\ db.status = "ok" )
    => result \in {"ok", "IOError"}

\* C8: within one calculate call the archive sum query of a rain window is
\* issued if and only if the observation does not carry the corresponding
\* rain quantity with a non-None value.
RainKey(w) == CASE w = "hour" -> "hourRain"
                [] w = "day24" -> "rain24"
                [] w = "today" -> "dayRain"

C8_QueryIffAbsent ==
    result \in {"ok", "IOError"}
    => queries = {w \in {"hour", "day24", "today"} : ~Has(packet, RainKey(w))}

\* C5: whenever handling an observation fails before the write (conversion
\* error, missing timestamp, archive manager or archive query failure), the
\* file's content after handle_data returns is what it was before the event.
C5_FailureLeavesFile == result \in PreWriteFailures => file = prev

C5_Witness == result \in PreWriteFailures /\ file # << >> /\ failures = 1

\* C6: handle_data never lets an exception reach the host, and an observation
\* that would be converted and written were it the only event is converted
\* and written, with the same result, after any number of failed events.
C6_StreamNotAborted ==
    /\ ~propagated
    /\ ( result # "none" /\ handle_data(<< >>, packet, db, io).exc = "" )
       => /\ result = "ok"
          /\ file = handle_data(<< >>, packet, db, io).file

C6_Witness == failures = MaxFailures /\ result = "ok" /\ file = StatusLine(data)

\* C7: once a handle_data call has completed its write, the file is exactly
\* that observation's timestamp line followed by its data line, each ended
\* by a newline, with no byte of the earlier content left, however long the
\* earlier content was.
C7_FileIsStatusLine ==
    result = "ok"
    => file = Strftime(packet["dateTime"][1]) \o DataLine(data) \o <<"\n">>

C7_Witness == result = "ok" /\ Len(prev) > Len(file)

\* C9 as claimed: at every point of write_data a reader of the file sees the
\* complete previous status line or the complete new one.
C9_NoPartialWrite ==
    \/ file = prev
    \/ line["a"] # << >> /\ file = Full(line["a"])

\* C9, amended: before write_data opens the file it holds the complete
\* previous content; from the open on it holds a prefix of the new status
\* line, which is empty right after the open and, when the flush fails, may
\* stay incomplete; once the close has returned it holds the complete new
\* status line.  It never holds bytes of the previous content after the open.
C9_PrefixOfNew ==
    /\ pc["a"] \in {"idle", "calculated", "failed"} => file = prev
    /\ pc["a"] \in {"opened", "wrote1", "wrote2", "wrote3", "failedwrite"}
           => IsPrefix(file, Full(line["a"]))
    /\ pc["a"] = "done" => file = Full(line["a"])

C9_Witness ==
    /\ pc["a"] = "failedwrite"
    /\ prev # << >>
    /\ file # << >>
    /\ file # Full(line["a"])

\* C10 as claimed: under every interleaving of two handle_data calls, the
\* final content is exactly the status line of the call that finished last.
AllDone == \A i \in Invocations : pc[i] = "done"

LastDone == finished[Len(finished)]

FirstDone == finished[1]

=============================================================================
